---- MODULE Spec2Model ----
(***************************************************************************)
(* The query-forwarding service (src/main.py: status, upsert_vectors,      *)
(* search) and the index-provisioning script (src/quick-start.py), each    *)
(* against the external vector store they call.                            *)
(*                                                                         *)
(* Vector components and similarity scores are integers in hundredths:     *)
(* 0.1 is 10, 0.15 is 15, a score of 1.0 is 100.                           *)
(*                                                                         *)
(* Three specifications:                                                   *)
(*   Spec       the service, the store an oracle: every store call may     *)
(*              return any value of the right shape or raise any failure;  *)
(*   SpecStore  the service against the store's contract (indexes of an    *)
(*              account, records keyed by id, cosine ranking);             *)
(*   SpecProv   NumRuns runs of the provisioning script, interleaved in    *)
(*              every way, against the account's list of indexes.          *)
(***************************************************************************)
EXTENDS Integers, Sequences, FiniteSets, TLC

VARIABLES
    account,          \* store: the account's indexes, a sequence of descriptors
    contents,         \* store: the records held by the index named index_name
    prev,             \* service: the request handled before the last one
    last,             \* service: the last request handled
    upserted,         \* service: whether some upsert has succeeded so far
    step,             \* provisioner: where each run of the script stands
    existing_indexes, \* provisioner: each run's listing (quick-start.py line 11)
    createCalls,      \* provisioner: create_index calls each run has issued
    createOutcome,    \* provisioner: what the store answered the run's create_index
    raised,           \* provisioner: the failure each run ended with, or NoError
    startedAfter      \* provisioner: the runs that had completed when the run listed

vars == <<account, contents, prev, last, upserted, step, existing_indexes, createCalls,
          createOutcome, raised, startedAfter>>

svcVars == <<prev, last, upserted>>
provVars == <<step, existing_indexes, createCalls, createOutcome, raised, startedAfter>>

----------------------------------------------------------------------------
(* Bounds of the model. *)

\* Longest match list the oracle store returns.
MaxMatches == 3
\* Number of runs of the provisioning script.
NumRuns == 2

----------------------------------------------------------------------------
(* Values shared by both programs. *)

index_name == "quickstart"

\* A store call returns a value or raises an exception.
Ok(v) == [kind |-> "ok", value |-> v, msg |-> ""]
Raise(m) == [kind |-> "raise", value |-> <<>>, msg |-> m]

\* str(e): the message text the exception carries.
Str(e) == e.msg

\* HTTPException(status_code=500, detail=str(e)) as the response the client gets.
HTTPException(code, detail) == [status |-> code, body |-> [detail |-> detail]]

Success(body) == [status |-> 200, body |-> body]

----------------------------------------------------------------------------
(* The service's handlers, src/main.py. *)

top_k == 5

vec(id, values, description) ==
    [id |-> id, values |-> values, metadata |-> [description |-> description]]

\* Faulty variant: the values of vec1 and vec2 are swapped.
vectorsSwapped ==
    << vec("vec1", <<20, 30>>, "First vector"),
       vec("vec2", <<10, 20>>, "Second vector"),
       vec("vec3", <<10, 15>>, "Third vector") >>

\* Faulty variant: the third record repeats the second one's id.
vectorsRepeatedId ==
    << vec("vec1", <<10, 20>>, "First vector"),
       vec("vec2", <<20, 30>>, "Second vector"),
       vec("vec2", <<10, 15>>, "Third vector") >>

\* The hardcoded payload of upsert_vectors.
vectors ==
    << vec("vec1", <<10, 20>>, "First vector"),
       vec("vec2", <<20, 30>>, "Second vector"),
       vec("vec3", <<10, 15>>, "Third vector") >>

\* status: the store call and the response built from its outcome.
StatusCall == [op |-> "list_indexes"]

StatusReply(outcome) ==
    IF outcome.kind = "ok"
    THEN Success([indexes |->
            [i \in 1..Len(outcome.value) |->
                [name |-> outcome.value[i].name,
                 host |-> outcome.value[i].host,
                 dimension |-> outcome.value[i].dimension]]])
    ELSE HTTPException(500, Str(outcome))

\* Faulty variant: the payload is taken from the request body when there is one.
UpsertCallFromBody(body) ==
    [op |-> "upsert", vectors |-> IF body = <<>> THEN vectors ELSE body]

\* upsert_vectors: takes no parameter, so the request body never reaches it.
UpsertCall(body) == [op |-> "upsert", vectors |-> vectors]

UpsertReply(outcome) ==
    IF outcome.kind = "ok"
    THEN Success([message |-> "Vectors upserted successfully", count |-> Len(vectors)])
    ELSE HTTPException(500, Str(outcome))

\* Faulty variant: the query vector is cut to two components.
SearchCallTruncated(query_vector) ==
    [op |-> "query",
     vector |-> IF Len(query_vector) > 2 THEN SubSeq(query_vector, 1, 2) ELSE query_vector,
     top_k |-> top_k, include_metadata |-> TRUE]

\* search: the query forwarded to the store and the response built from its outcome.
SearchCall(query_vector) ==
    [op |-> "query", vector |-> query_vector, top_k |-> top_k, include_metadata |-> TRUE]

\* Faulty variant: the matches are returned in reverse order.
SearchMatchesReversed(matches) ==
    [i \in 1..Len(matches) |->
        [id |-> matches[Len(matches) + 1 - i].id,
         score |-> matches[Len(matches) + 1 - i].score,
         metadata |-> matches[Len(matches) + 1 - i].metadata]]

SearchMatches(matches) ==
    [i \in 1..Len(matches) |->
        [id |-> matches[i].id, score |-> matches[i].score, metadata |-> matches[i].metadata]]

\* Faulty variant: a failed query is answered as a search without matches.
SearchReplySwallow(outcome) ==
    IF outcome.kind = "ok"
    THEN Success([matches |->
            [i \in 1..Len(outcome.value.matches) |->
                [id |-> outcome.value.matches[i].id,
                 score |-> outcome.value.matches[i].score,
                 metadata |-> outcome.value.matches[i].metadata]]])
    ELSE Success([matches |-> <<>>])

\* Faulty variant: a query without matches is answered as a failure.
SearchReplyEmptyFails(outcome) ==
    IF outcome.kind = "ok" /\ outcome.value.matches # <<>>
    THEN Success([matches |->
            [i \in 1..Len(outcome.value.matches) |->
                [id |-> outcome.value.matches[i].id,
                 score |-> outcome.value.matches[i].score,
                 metadata |-> outcome.value.matches[i].metadata]]])
    ELSE HTTPException(500, IF outcome.kind = "ok" THEN "no matches" ELSE Str(outcome))

SearchReply(outcome) ==
    IF outcome.kind = "ok"
    THEN Success([matches |-> SearchMatches(outcome.value.matches)])
    ELSE HTTPException(500, Str(outcome))

\* A handled request: what was asked, the store calls issued, what the store
\* answered to the last of them, and the responses sent.
Handled(op, request, calls, outcome, responses) ==
    [op |-> op, request |-> request, calls |-> calls, outcome |-> outcome,
     responses |-> responses]

NoRequest == Handled("none", <<>>, <<>>, Ok(<<>>), <<>>)

status(outcome) ==
    /\ prev' = last
    /\ UNCHANGED upserted
    /\ last' = Handled("status", <<>>, <<StatusCall>>, outcome, <<StatusReply(outcome)>>)

upsert_vectors(body, outcome) ==
    /\ prev' = last
    /\ upserted' = (upserted \/ outcome.kind = "ok")
    /\ last' = Handled("upsert", body, <<UpsertCall(body)>>, outcome, <<UpsertReply(outcome)>>)

search(query_vector, outcome) ==
    /\ prev' = last
    /\ UNCHANGED upserted
    /\ last' = Handled("search", query_vector, <<SearchCall(query_vector)>>, outcome,
                       <<SearchReply(outcome)>>)

----------------------------------------------------------------------------
(* Inputs. *)

\* Request bodies a client may post to /upsert.
Bodies ==
    { <<>>,
      << vec("mine", <<70, 70>>, "Caller's vector") >> }

\* Query vectors a client may post to /search: of the index's dimension or not.
Queries == { <<10, 20>>, <<30, 10>>, <<10, 20, 30>>, <<>> }

\* Failure messages of the store's client.
Messages == { "", "connection timed out" }

----------------------------------------------------------------------------
(* The store as an oracle: any value of the right shape, or any failure. *)

Descriptor(name, dimension, metric) ==
    [name |-> name, host |-> name \o ".svc.pinecone.io", dimension |-> dimension,
     metric |-> metric]

Match(id, score, description) ==
    [id |-> id, score |-> score, values |-> <<>>, metadata |-> [description |-> description]]

MatchPool ==
    { Match("vec1", 100, "First vector"),
      Match("vec2", 98, "Second vector") }

RECURSIVE SeqsUpTo(_, _)
SeqsUpTo(S, n) ==
    IF n = 0 THEN { <<>> }
    ELSE LET shorter == SeqsUpTo(S, n - 1)
         IN shorter \cup { Append(s, x) : s \in { t \in shorter : Len(t) = n - 1 }, x \in S }

Failures == { Raise(m) : m \in Messages }

AnyListOutcome ==
    { Ok(l) : l \in SeqsUpTo({ Descriptor(index_name, 2, "cosine"),
                               Descriptor("other", 3, "euclidean") }, 2) } \cup Failures

AnyUpsertOutcome == { Ok([upserted_count |-> 3]) } \cup Failures

AnyQueryOutcome ==
    { Ok([matches |-> m]) : m \in SeqsUpTo(MatchPool, MaxMatches) } \cup Failures

----------------------------------------------------------------------------
(* The store's contract (spec sections 3, 4 and 6): an account holds indexes *)
(* with unique names; an index holds records keyed by id, all of the index's *)
(* dimension; a query ranks the records by decreasing similarity.            *)

TransportFailure == Raise("connection timed out")
NotFound == Raise("index not found")
DimensionMismatch == Raise("vector dimension does not match the dimension of the index")
AlreadyExists == Raise("index already exists")

Names(listing) == { listing[i].name : i \in 1..Len(listing) }

IndexNamed(acct, name) == acct[CHOOSE i \in 1..Len(acct) : acct[i].name = name]

StoreListIndexes(acct) == { Ok(acct), TransportFailure }

\* create_index: fails when the name is taken, else adds the index.
StoreCreateIndex(acct, call) ==
    IF call.name \in Names(acct)
    THEN { AlreadyExists, TransportFailure }
    ELSE { Ok(<<>>), TransportFailure }

AccountAfterCreate(acct, call, outcome) ==
    IF outcome.kind = "ok"
    THEN Append(acct, Descriptor(call.name, call.dimension, call.metric))
    ELSE acct

\* get_index_handle: resolves the index's host.
StoreIndex(acct, name) ==
    IF name \in Names(acct) THEN { Ok(IndexNamed(acct, name).host), TransportFailure }
    ELSE { NotFound, TransportFailure }

\* handle.upsert: one batch, keyed by id.
StoreUpsert(acct, call) ==
    IF index_name \notin Names(acct) THEN { NotFound, TransportFailure }
    ELSE IF \E i \in 1..Len(call.vectors) :
                Len(call.vectors[i].values) # IndexNamed(acct, index_name).dimension
    THEN { DimensionMismatch, TransportFailure }
    ELSE { Ok([upserted_count |-> Len(call.vectors)]), TransportFailure }

ContentsAfterUpsert(recs, call, outcome) ==
    IF outcome.kind = "ok"
    THEN { r \in recs : \A i \in 1..Len(call.vectors) : call.vectors[i].id # r.id }
            \cup { call.vectors[i] : i \in 1..Len(call.vectors) }
    ELSE recs

\* Cosine similarity in hundredths, rounded down (components are not negative).
Dot(v, w) == LET RECURSIVE Sum(_)
                 Sum(i) == IF i = 0 THEN 0 ELSE v[i] * w[i] + Sum(i - 1)
             IN Sum(Len(v))

ISqrt(x) == CHOOSE n \in 0..100 : n * n <= x /\ (n + 1) * (n + 1) > x

Cosine(v, q) == ISqrt(((Dot(v, q) * Dot(v, q) * 100) \div (Dot(v, v) * Dot(q, q))) * 100)

StoreMatch(r, q) ==
    [id |-> r.id, score |-> Cosine(r.values, q), values |-> <<>>, metadata |-> r.metadata]

\* The rankings of at most k of the matches ms by decreasing score; matches of
\* equal score come in either order.
RECURSIVE Rankings(_, _)
Rankings(ms, k) ==
    IF k = 0 \/ ms = {} THEN { <<>> }
    ELSE LET best == { m \in ms : \A o \in ms : m.score >= o.score }
         IN UNION { { <<m>> \o rest : rest \in Rankings(ms \ {m}, k - 1) } : m \in best }

\* handle.query
StoreQuery(acct, recs, call) ==
    IF index_name \notin Names(acct) THEN { NotFound, TransportFailure }
    ELSE IF Len(call.vector) # IndexNamed(acct, index_name).dimension
    THEN { DimensionMismatch, TransportFailure }
    ELSE { Ok([matches |-> m]) : m \in Rankings({ StoreMatch(r, call.vector) : r \in recs }, call.top_k) }
            \cup { TransportFailure }

----------------------------------------------------------------------------
(* The states the store may be in when the programs start. *)

Others == { <<>>, << Descriptor("other", 3, "euclidean") >> }

\* The service's account: no index quickstart, or one of dimension 2 or 3.
ServiceAccounts ==
    { o \o i : o \in Others,
               i \in { <<>>, << Descriptor(index_name, 2, "cosine") >>,
                       << Descriptor(index_name, 3, "cosine") >> } }

\* Records an index can hold before the service first writes to it.
Stale(dimension) ==
    IF dimension = 2
    THEN { vec("vec1", <<20, 10>>, "Stale vector"),
           vec("doc1", <<20, 40>>, "A document"),
           vec("doc2", <<30, 10>>, "Another document"),
           vec("doc3", <<40, 10>>, "A third document") }
    ELSE { vec("doc9", <<10, 20, 30>>, "A longer document") }

\* The provisioner's account: no index quickstart, or one of any configuration.
ProvAccounts ==
    { o \o i : o \in Others,
               i \in { <<>> } \cup { << Descriptor(index_name, d, m) >> :
                                        d \in {2, 3}, m \in {"cosine", "euclidean"} } }

----------------------------------------------------------------------------
(* The provisioning script, src/quick-start.py; p is one run of it. *)

Runs == 1..NumRuns
NoError == "none"
NoOutcome == [kind |-> "none", value |-> <<>>, msg |-> ""]

\* Faulty variant: the index is created whatever the listing holds.
AbsentAlways(listing) == TRUE

\* Faulty variant: an index of another configuration counts as absent.
AbsentOrDifferent(listing) ==
    \A i \in 1..Len(listing) :
        ~(listing[i].name = index_name /\ listing[i].dimension = 2
            /\ listing[i].metric = "cosine")

\* index_name not in [index.name for index in existing_indexes]
Absent(listing) == \A i \in 1..Len(listing) : listing[i].name # index_name

CreateCall == [op |-> "create_index", name |-> index_name, dimension |-> 2, metric |-> "cosine"]

Fail(p, outcome) ==
    /\ step' = [step EXCEPT ![p] = "failed"]
    /\ raised' = [raised EXCEPT ![p] = Str(outcome)]

\* line 11: existing_indexes = pc.list_indexes()
ProvList(p, outcome) ==
    /\ step[p] = "idle"
    /\ startedAfter' = [startedAfter EXCEPT ![p] = { r \in Runs : step[r] = "done" }]
    /\ IF outcome.kind = "ok"
       THEN /\ existing_indexes' = [existing_indexes EXCEPT ![p] = outcome.value]
            /\ step' = [step EXCEPT ![p] = "listed"]
            /\ UNCHANGED raised
       ELSE Fail(p, outcome) /\ UNCHANGED existing_indexes
    /\ UNCHANGED <<account, createCalls, createOutcome>>

\* Faulty variant: a failure of create_index is caught and the script goes on.
ProvCreateSwallow(p, outcome) ==
    /\ step[p] = "listed"
    /\ Absent(existing_indexes[p])
    /\ createCalls' = [createCalls EXCEPT ![p] = @ + 1]
    /\ createOutcome' = [createOutcome EXCEPT ![p] = outcome]
    /\ account' = AccountAfterCreate(account, CreateCall, outcome)
    /\ step' = [step EXCEPT ![p] = "handle"]
    /\ UNCHANGED <<raised, existing_indexes, startedAfter>>

\* lines 15-22: the name is not in the listing, so create the index
ProvCreate(p, outcome) ==
    /\ step[p] = "listed"
    /\ Absent(existing_indexes[p])
    /\ createCalls' = [createCalls EXCEPT ![p] = @ + 1]
    /\ createOutcome' = [createOutcome EXCEPT ![p] = outcome]
    /\ account' = AccountAfterCreate(account, CreateCall, outcome)
    /\ IF outcome.kind = "ok"
       THEN step' = [step EXCEPT ![p] = "handle"] /\ UNCHANGED raised
       ELSE Fail(p, outcome)
    /\ UNCHANGED <<existing_indexes, startedAfter>>

\* lines 23-24: the name is in the listing
ProvExists(p) ==
    /\ step[p] = "listed"
    /\ ~Absent(existing_indexes[p])
    /\ step' = [step EXCEPT ![p] = "handle"]
    /\ UNCHANGED <<account, existing_indexes, createCalls, createOutcome, raised, startedAfter>>

\* line 27: index = pc.Index(index_name)
ProvIndex(p, outcome) ==
    /\ step[p] = "handle"
    /\ IF outcome.kind = "ok"
       THEN step' = [step EXCEPT ![p] = "relist"] /\ UNCHANGED raised
       ELSE Fail(p, outcome)
    /\ UNCHANGED <<account, existing_indexes, createCalls, createOutcome, startedAfter>>

\* line 30: print("Current indexes:", pc.list_indexes())
ProvRelist(p, outcome) ==
    /\ step[p] = "relist"
    /\ IF outcome.kind = "ok"
       THEN step' = [step EXCEPT ![p] = "done"] /\ UNCHANGED raised
       ELSE Fail(p, outcome)
    /\ UNCHANGED <<account, existing_indexes, createCalls, createOutcome, startedAfter>>

----------------------------------------------------------------------------
(* Specifications. *)

ProvIdle ==
    /\ step = [p \in Runs |-> "idle"]
    /\ existing_indexes = [p \in Runs |-> <<>>]
    /\ createCalls = [p \in Runs |-> 0]
    /\ createOutcome = [p \in Runs |-> NoOutcome]
    /\ raised = [p \in Runs |-> NoError]
    /\ startedAfter = [p \in Runs |-> {}]

Init ==
    /\ account = <<>>
    /\ contents = {}
    /\ prev = NoRequest
    /\ last = NoRequest
    /\ upserted = FALSE
    /\ ProvIdle

Next ==
    \/ \E outcome \in AnyListOutcome :
           status(outcome) /\ UNCHANGED <<account, contents, provVars>>
    \/ \E body \in Bodies, outcome \in AnyUpsertOutcome :
           upsert_vectors(body, outcome) /\ UNCHANGED <<account, contents, provVars>>
    \/ \E query_vector \in Queries, outcome \in AnyQueryOutcome :
           search(query_vector, outcome) /\ UNCHANGED <<account, contents, provVars>>

Spec == Init /\ [][Next]_vars

\* The service against the store's contract.
InitStore ==
    /\ account \in ServiceAccounts
    /\ contents \in IF index_name \in Names(account)
                    THEN SUBSET Stale(IndexNamed(account, index_name).dimension)
                    ELSE { {} }
    /\ prev = NoRequest
    /\ last = NoRequest
    /\ upserted = FALSE
    /\ ProvIdle

NextStore ==
    \/ \E outcome \in StoreListIndexes(account) :
           status(outcome) /\ UNCHANGED <<account, contents, provVars>>
    \/ \E body \in Bodies : \E outcome \in StoreUpsert(account, UpsertCall(body)) :
           /\ upsert_vectors(body, outcome)
           /\ contents' = ContentsAfterUpsert(contents, UpsertCall(body), outcome)
           /\ UNCHANGED <<account, provVars>>
    \/ \E query_vector \in Queries :
           \E outcome \in StoreQuery(account, contents, SearchCall(query_vector)) :
               search(query_vector, outcome) /\ UNCHANGED <<account, contents, provVars>>

SpecStore == InitStore /\ [][NextStore]_vars

\* The provisioning script, NumRuns runs of it.
InitProv ==
    /\ account \in ProvAccounts
    /\ contents = {}
    /\ prev = NoRequest
    /\ last = NoRequest
    /\ upserted = FALSE
    /\ ProvIdle

NextProv ==
    \E p \in Runs :
        \/ \E outcome \in StoreListIndexes(account) :
               ProvList(p, outcome) /\ UNCHANGED <<contents, svcVars>>
        \/ \E outcome \in StoreCreateIndex(account, CreateCall) :
               ProvCreate(p, outcome) /\ UNCHANGED <<contents, svcVars>>
        \/ ProvExists(p) /\ UNCHANGED <<contents, svcVars>>
        \/ \E outcome \in StoreIndex(account, index_name) :
               ProvIndex(p, outcome) /\ UNCHANGED <<contents, svcVars>>
        \/ \E outcome \in StoreListIndexes(account) :
               ProvRelist(p, outcome) /\ UNCHANGED <<contents, svcVars>>

SpecProv == InitProv /\ [][NextProv]_vars

----------------------------------------------------------------------------
(* Properties of the service, whatever the store answers (Spec). *)

Handlers == { "status", "upsert", "search" }

Failed(r) == r.op \in Handlers /\ r.outcome.kind = "raise"
Succeeded(r) == r.op \in Handlers /\ r.outcome.kind = "ok"

NonIncreasing(ms) == \A i \in 1..Len(ms) : \A j \in i..Len(ms) : ms[i].score >= ms[j].score

\* The three records upsert_vectors writes, spelled out.
FixedRecords ==
    << [id |-> "vec1", values |-> <<10, 20>>, metadata |-> [description |-> "First vector"]],
       [id |-> "vec2", values |-> <<20, 30>>, metadata |-> [description |-> "Second vector"]],
       [id |-> "vec3", values |-> <<10, 15>>, metadata |-> [description |-> "Third vector"]] >>

\* C2: when the store call of status, upsert or search fails, the request ends with
\* exactly one response, a 500 whose detail is the failure's message; the handler
\* has made that one store call only, and sends no success body.
C2_FailureIsOne500 ==
    Failed(last) =>
        /\ Len(last.calls) = 1
        /\ last.responses = << [status |-> 500, body |-> [detail |-> last.outcome.msg]] >>

\* C2 witness: an upsert and then a search whose store calls failed, with
\* different messages.
C2_Witness ==
    /\ prev.op = "upsert" /\ Failed(prev) /\ prev.outcome.msg = ""
    /\ last.op = "search" /\ Failed(last) /\ last.outcome.msg = "connection timed out"
    /\ last.responses[1].status = 500

\* C3: a successful search returns the store's matches in the store's order, one
\* {id, score, metadata} per match with the values unchanged; so when the store's
\* matches come by decreasing score, the response's scores are non-increasing.
C3_OrderPreserved ==
    (last.op = "search" /\ Succeeded(last)) =>
        LET ms == last.outcome.value.matches
            out == last.responses[1].body.matches
        IN /\ Len(last.responses) = 1
           /\ last.responses[1].status = 200
           /\ Len(out) = Len(ms)
           /\ \A i \in 1..Len(ms) :
                 out[i] = [id |-> ms[i].id, score |-> ms[i].score, metadata |-> ms[i].metadata]
           /\ NonIncreasing(ms) => NonIncreasing(out)

\* C3 witness: a search answered with two different matches by decreasing score.
C3_Witness ==
    /\ last.op = "search" /\ Succeeded(last)
    /\ Len(last.outcome.value.matches) >= 2
    /\ last.outcome.value.matches[1].score > last.outcome.value.matches[2].score
    /\ last.responses[1].body.matches[1].id = last.outcome.value.matches[1].id

\* C4: every upsert, whatever the request body, issues exactly one write to the
\* store, of exactly the three fixed records, and on success answers with the
\* count of the records written, 3.
C4_FixedPayload ==
    last.op = "upsert" =>
        /\ last.calls = << [op |-> "upsert", vectors |-> FixedRecords] >>
        /\ Succeeded(last) =>
              /\ Len(last.responses) = 1
              /\ last.responses[1].status = 200
              /\ last.responses[1].body.count = Len(last.calls[1].vectors)
              /\ last.responses[1].body.count = 3

\* C4 witness: a successful upsert whose request carried records of its own.
C4_Witness ==
    /\ last.op = "upsert" /\ Succeeded(last)
    /\ last.request # <<>>
    /\ last.responses[1].body.count = 3

\* C7: an empty answer of the store is a success: status of an account without
\* indexes returns {indexes: []}, a search without matches returns {matches: []},
\* neither a 500.
C7_EmptyIsSuccess ==
    /\ (last.op = "status" /\ Succeeded(last) /\ last.outcome.value = <<>>) =>
          last.responses = << [status |-> 200, body |-> [indexes |-> <<>>]] >>
    /\ (last.op = "search" /\ Succeeded(last) /\ last.outcome.value.matches = <<>>) =>
          last.responses = << [status |-> 200, body |-> [matches |-> <<>>]] >>

\* C7 witness: a status of an account without indexes, then a search without
\* matches, both answered 200.
C7_Witness ==
    /\ prev.op = "status" /\ Succeeded(prev) /\ prev.outcome.value = <<>>
    /\ prev.responses[1].status = 200
    /\ last.op = "search" /\ Succeeded(last) /\ last.outcome.value.matches = <<>>
    /\ last.responses[1].status = 200

----------------------------------------------------------------------------
(* Properties of the provisioning script (SpecProv). *)

QuickstartCount == Cardinality({ i \in 1..Len(account) : account[i].name = index_name })

Created(p) == createOutcome[p].kind = "ok"

\* C1: of two runs in succession, the second started after the first completed,
\* the first created the index if its listing lacked it, the second finds it in
\* its listing, issues no create_index and ends in no failure but one the store
\* raised on a listing or on the handle; exactly one index quickstart exists.
C1_TwiceInSuccession ==
    \A p, q \in Runs :
        p \in startedAfter[q] =>
            /\ QuickstartCount = 1
            /\ index_name \notin Names(existing_indexes[p]) =>
                  (Created(p) /\ createCalls[p] = 1)
            /\ index_name \in Names(existing_indexes[p]) => createCalls[p] = 0
            /\ createCalls[q] = 0
            /\ step[q] \in { "listed", "handle", "relist", "done" } =>
                  index_name \in Names(existing_indexes[q])
            /\ step[q] = "failed" => raised[q] = TransportFailure.msg

\* C1 witness: the first run created the index, the second ran after it and
\* completed too.
C1_Witness ==
    \E p, q \in Runs :
        /\ p \in startedAfter[q]
        /\ Created(p)
        /\ step[q] = "done"
        /\ createCalls[q] = 0
        /\ QuickstartCount = 1

\* C8: a run that finds the name in its listing issues no create_index, leaves the
\* account as it listed it, whatever the existing index's dimension and metric,
\* and ends in no failure but one the store raised on the handle or the listing.
C8_ExistingUntouched ==
    \A p \in Runs :
        index_name \in Names(existing_indexes[p]) =>
            /\ createCalls[p] = 0
            /\ account = existing_indexes[p]
            /\ step[p] = "failed" => raised[p] = TransportFailure.msg

\* C8 witness: a run completed on an account whose index quickstart has dimension
\* 3 and metric euclidean, and the index is still so.
C8_Witness ==
    \E p \in Runs :
        /\ step[p] = "done"
        /\ index_name \in Names(existing_indexes[p])
        /\ IndexNamed(existing_indexes[p], index_name).dimension = 3
        /\ IndexNamed(account, index_name).dimension = 3
        /\ IndexNamed(account, index_name).metric = "euclidean"
        /\ createCalls[p] = 0

\* C10: in every interleaving of the runs at most one index quickstart exists and
\* at most one run's create_index succeeds; a run whose create_index fails ends
\* with that failure; a run completes only if it created the index or found it
\* in its own listing.
C10_ConcurrentRuns ==
    /\ QuickstartCount <= 1
    /\ \A p, q \in Runs : (Created(p) /\ Created(q)) => p = q
    /\ \A p \in Runs :
          createOutcome[p].kind = "raise" =>
              (step[p] = "failed" /\ raised[p] = createOutcome[p].msg)
    /\ \A p \in Runs :
          step[p] = "done" => (Created(p) \/ index_name \in Names(existing_indexes[p]))

\* C10 witness: two runs both listed the name as absent and both issued
\* create_index; one created the index, the other ended with the store's
\* refusal of the taken name.
C10_Witness ==
    \E p, q \in Runs :
        /\ p # q
        /\ index_name \notin Names(existing_indexes[p])
        /\ index_name \notin Names(existing_indexes[q])
        /\ createCalls[p] = 1 /\ createCalls[q] = 1
        /\ Created(p)
        /\ step[q] = "failed" /\ raised[q] = AlreadyExists.msg
        /\ QuickstartCount = 1

----------------------------------------------------------------------------
(* Properties of the service against the store's contract (SpecStore). *)

HasIndex == index_name \in Names(account)
TheIndex == IndexNamed(account, index_name)

FixedIds == { FixedRecords[i].id : i \in 1..Len(FixedRecords) }

\* C5: a search whose query vector is not of the index's dimension sends the
\* vector to the store as it came and ends in one error response, never in a
\* success body.
C5_WrongDimensionFails ==
    (last.op = "search" /\ HasIndex /\ Len(last.request) # TheIndex.dimension) =>
        /\ Len(last.calls) = 1
        /\ last.calls[1].vector = last.request
        /\ Len(last.responses) = 1
        /\ last.responses[1].status = 500

\* C5 witness: a query of three components on the index of dimension 2, answered
\* 500 with the store's dimension failure.
C5_Witness ==
    /\ last.op = "search" /\ HasIndex /\ TheIndex.dimension = 2
    /\ last.request = <<10, 20, 30>>
    /\ last.responses = << [status |-> 500, body |-> [detail |-> DimensionMismatch.msg]] >>

\* A successful upsert followed at once by a successful search for [0.1, 0.2] on
\* the index quickstart of dimension 2 and metric cosine.
UpsertThenSearch ==
    /\ HasIndex /\ TheIndex.dimension = 2 /\ TheIndex.metric = "cosine"
    /\ prev.op = "upsert" /\ Succeeded(prev)
    /\ last.op = "search" /\ Succeeded(last) /\ last.request = <<10, 20>>

FirstIsVec1 ==
    /\ Len(last.responses[1].body.matches) >= 1
    /\ last.responses[1].body.matches[1].id = "vec1"
    /\ last.responses[1].body.matches[1].metadata = [description |-> "First vector"]

NoRivalRecord ==
    \A r \in contents : r.id \notin FixedIds => Cosine(r.values, <<10, 20>>) < 100

RecordsWithId(id) == { r \in contents' : r.id = id }

\* C9: a successful upsert leaves the index with exactly one record for each of
\* vec1, vec2 and vec3, of the fixed values and metadata, and with the records of
\* the other ids as they were; once an upsert has succeeded, a further successful
\* upsert leaves the contents as they are.
C9_UpsertIdempotent ==
    [][ (last'.op = "upsert" /\ Succeeded(last')) =>
            /\ contents' = { r \in contents : r.id \notin FixedIds }
                              \cup { FixedRecords[i] : i \in 1..Len(FixedRecords) }
            /\ \A id \in FixedIds : Cardinality(RecordsWithId(id)) = 1
            /\ upserted => contents' = contents ]_vars

\* C9 witness: two successful upserts in a row on an index that held a stale vec1
\* and holds a record of another id.
C9_Witness ==
    /\ upserted
    /\ prev.op = "upsert" /\ Succeeded(prev)
    /\ last.op = "upsert" /\ Succeeded(last)
    /\ \E r \in contents : r.id \notin FixedIds
    /\ Cardinality(contents) = 4

====
